---- MODULE Spec2Model ----
(***************************************************************************)
(* Model of lms/djangoapps/instructor_task/tasks_helper.py: the generic    *)
(* per-StudentModule update runner (perform_module_state_update), its      *)
(* lifecycle wrapper (run_update_task), the per-student runner              *)
(* (perform_enrolled_student_update) and the visitors they are given.      *)
(*                                                                         *)
(* One run of run_update_task executes at a time (one Celery work unit);   *)
(* the InstructorTask row, the StudentModule table and the                 *)
(* OfflineComputedGrade table persist between runs.  The LMS may add       *)
(* StudentModule rows while a run is in progress.                          *)
(***************************************************************************)
EXTENDS Integers, Sequences, FiniteSets, TLC

\* ------------------------------------------------------------------ bounds
NumStudents == 2
MaxTime == 1
MaxTracebackLen == 2

\* ------------------------------------------------------- program constants
UPDATE_STATUS_SUCCEEDED == "succeeded"
UPDATE_STATUS_FAILED == "failed"
UPDATE_STATUS_SKIPPED == "skipped"
SUCCESS == "SUCCESS"
FAILURE == "FAILURE"
PROGRESS == "PROGRESS"
\* the number of students after which the loop of
\* perform_enrolled_student_update stops (line 297)
GradingCap == 1000

\* ------------------------------------------------------------- data domain
Students == 1..NumStudents
Names == <<"a", "b", "c", "d">>

\* optional values (Python None)
None == [some |-> FALSE, val |-> <<>>]
Some(v) == [some |-> TRUE, val |-> v]

\* django.contrib.auth User rows: username and email as character sequences
Username(s) == <<Names[s]>>
Email(s) == <<Names[s], "@", "x">>

\* student identifiers a task input may carry
Identifiers == {None, Some(Username(1)), Some(Email(1)), Some(<<"z">>), Some(<<"z", "@", "x">>)}

CourseId == "c1"
ProblemUrl == "p1"
TaskIds == {"t1", "t2"}
EntryIds == {1, 2}
ActionName == "updated"

\* the problem_url of a task input that has none: task_input.get returns
\* None, written here the way format() prints it
NoUrl == "None"

\* inputs of the tasks on one problem
TaskInputs == [problem_url : {ProblemUrl}, student : Identifiers]

\* inputs of the tasks on the enrolled students of a course
GradeInputs ==
    [problem_url : {NoUrl}, student : Identifiers]
      \cup [problem_url : {ProblemUrl}, student : {None}]

\* the sets of users enrolled in CourseId when a task is queued
InitEnrolled == {Students, Students \ {NumStudents}}

\* a StudentModule.state blob: the empty string, or JSON text of an object,
\* kept as the sequence of its key/value pairs in textual order
EmptyBlob == [empty |-> TRUE, pairs |-> <<>>]
Json(ps) == [empty |-> FALSE, pairs |-> ps]

\* an OfflineComputedGrade row of CourseId for one student
NoGrade == [present |-> FALSE, gradeset |-> ""]
Grade(g) == [present |-> TRUE, gradeset |-> g]

\* a StudentModule row of (CourseId, ProblemUrl) for one student
Absent == [present |-> FALSE, state |-> EmptyBlob]
Row(b) == [present |-> TRUE, state |-> b]

InitRows ==
    {Absent, Row(EmptyBlob), Row(Json(<<<<"seed", 1>>>>)),
     Row(Json(<<<<"seed", 1>>, <<"attempts", 2>>>>))}

\* rows the LMS creates when a student first opens the problem
NewRows == {Row(Json(<<<<"seed", 1>>, <<"attempts", 1>>>>))}

\* ------------------------------------------------------------ json helpers
KeyOrder == <<"attempts", "seed">>

\* json.loads of a blob text: the dict (function) of its pairs
json_loads(b) ==
    LET keys == {b.pairs[i][1] : i \in DOMAIN b.pairs}
    IN  [k \in keys |-> b.pairs[CHOOSE i \in DOMAIN b.pairs : b.pairs[i][1] = k][2]]

\* json.dumps of a dict: the pairs are written in the dict's own order,
\* which need not be the order of the text the dict was parsed from
json_dumps(d) ==
    LET ks == SelectSeq(KeyOrder, LAMBDA x : x \in DOMAIN d)
    IN  Json([i \in 1..Len(ks) |-> <<ks[i], d[ks[i]]>>])

EmptyDict == [k \in {} |-> 0]

\* ------------------------------------------------------------- exceptions
NoExc == [kind |-> "", message |-> <<>>]
Exc(k, m) == [kind |-> k, message |-> m]

\* the message built at lines 451-452 and 463-464
MismatchMessage(actual_id, task_id, course_id, state_key) ==
    <<"Requested task did not match actual task", actual_id,
      "task", task_id, "course", course_id, "problem", state_key>>

\* ------------------------------------------------ InstructorTask outputs
ProgressKeyOrder ==
    <<"action_name", "attempted", "succeeded", "skipped", "failed", "updated",
      "total", "duration_ms">>

\* InstructorTask.create_output_for_success: the JSON text of the progress dict,
\* one key/value pair for each key the dict has
create_output_for_success(p) ==
    LET ks == SelectSeq(ProgressKeyOrder, LAMBDA k : k \in DOMAIN p)
    IN  [i \in 1..Len(ks) |-> <<ks[i], p[ks[i]]>>]

Truncate(seq, n) == IF Len(seq) > n THEN SubSeq(seq, 1, n) ELSE seq

\* InstructorTask.create_output_for_failure: exception type name, message and
\* the traceback text cut to a bounded length
create_output_for_failure(exception, traceback_string) ==
    << <<"exception", exception.kind>>, <<"message", exception.message>>,
       <<"traceback", Truncate(traceback_string, MaxTracebackLen)>> >>

NoOutput == <<>>

\* --------------------------------------------------------------- tracking
\* _get_track_function_for_task(student, args)(event_type, event)
track_function(s, event_type, event) ==
    [event_type |-> event_type, student |-> Username(s), event |-> event]

\* ---------------------------------------------------------------- visitors
\* what the collaborators of one visitor call do: whether the storage layer
\* accepts the write, what module instance is obtained, what rescoring returns
Exts ==
    [db_ok : {FALSE}, inst : {"ok"}, result : [has_success : {TRUE}, success : {"correct"}]]
      \cup [db_ok : {TRUE}, inst : {"none", "no_rescore"},
            result : [has_success : {TRUE}, success : {"correct"}]]
      \cup [db_ok : {TRUE}, inst : {"ok"},
            result : [has_success : {TRUE}, success : {"correct", "incorrect", "error"}]
                       \cup [has_success : {FALSE}, success : {"error"}]]

Returned(st, row, evs) ==
    [raised |-> FALSE, exc |-> NoExc, status |-> st, row |-> row, events |-> evs,
     wrote |-> FALSE]
Raised(e, row) ==
    [raised |-> TRUE, exc |-> e, status |-> "", row |-> row, events |-> <<>>,
     wrote |-> FALSE]

\* the outcome of a visitor call during which save() or delete() stored the row
Stored(res) == [res EXCEPT !.wrote = TRUE]

DatabaseError == Exc("DatabaseError", <<"database error">>)

\* the reset made whenever the state has an attempts entry
reset_attempts_always(m, cur, ext) ==
    LET problem_state == IF m.state.empty THEN EmptyDict ELSE json_loads(m.state)
    IN  IF "attempts" \in DOMAIN problem_state
        THEN IF ~ext.db_ok
             THEN Raised(DatabaseError, cur)
             ELSE Returned(UPDATE_STATUS_SUCCEEDED,
                           Row(json_dumps([problem_state EXCEPT !["attempts"] = 0])),
                           <<track_function(m.student, "problem_reset_attempts",
                                            << <<"old_attempts", problem_state["attempts"]>>,
                                               <<"new_attempts", 0>> >>)>>)
        ELSE Returned(UPDATE_STATUS_SKIPPED, cur, <<>>)

\* the reset that stores a state holding the attempts field alone
reset_attempts_only_attempts(m, cur, ext) ==
    LET problem_state == IF m.state.empty THEN EmptyDict ELSE json_loads(m.state)
    IN  IF "attempts" \in DOMAIN problem_state /\ problem_state["attempts"] > 0
        THEN IF ~ext.db_ok
             THEN Raised(DatabaseError, cur)
             ELSE Stored(Returned(UPDATE_STATUS_SUCCEEDED,
                           Row(json_dumps([k \in {"attempts"} |-> 0])),
                           <<track_function(m.student, "problem_reset_attempts",
                                            << <<"old_attempts", problem_state["attempts"]>>,
                                               <<"new_attempts", 0>> >>)>>))
        ELSE Returned(UPDATE_STATUS_SKIPPED, cur, <<>>)

\* lines 607-631; m is the in-memory StudentModule [student, state], cur is
\* its stored row
reset_attempts_module_state(m, cur, ext) ==
    LET problem_state == IF m.state.empty THEN EmptyDict ELSE json_loads(m.state)
    IN  IF "attempts" \in DOMAIN problem_state /\ problem_state["attempts"] > 0
        THEN IF ~ext.db_ok
             THEN Raised(DatabaseError, cur)
             ELSE Stored(Returned(UPDATE_STATUS_SUCCEEDED,
                           Row(json_dumps([problem_state EXCEPT !["attempts"] = 0])),
                           <<track_function(m.student, "problem_reset_attempts",
                                            << <<"old_attempts", problem_state["attempts"]>>,
                                               <<"new_attempts", 0>> >>)>>))
        ELSE Returned(UPDATE_STATUS_SKIPPED, cur, <<>>)

\* the delete that reports a storage error as a failed target
delete_problem_module_state_soft(m, cur, ext) ==
    IF ~ext.db_ok
    THEN Returned(UPDATE_STATUS_FAILED, cur, <<>>)
    ELSE Returned(UPDATE_STATUS_SUCCEEDED, Absent,
                  <<track_function(m.student, "problem_delete_state", <<>>)>>)

\* lines 634-646
delete_problem_module_state(m, cur, ext) ==
    IF ~ext.db_ok
    THEN Raised(DatabaseError, cur)
    ELSE Stored(Returned(UPDATE_STATUS_SUCCEEDED, Absent,
                         <<track_function(m.student, "problem_delete_state", <<>>)>>))

\* the rescoring that saves the instance only after a successful rescore
rescore_problem_module_state_save_on_success(m, cur, ext) ==
    IF ext.inst = "none"
    THEN Raised(Exc("UpdateProblemModuleStateError", <<"No module for student--access denied?">>), cur)
    ELSE IF ext.inst = "no_rescore"
    THEN Raised(Exc("UpdateProblemModuleStateError", <<"Specified problem does not support rescoring.">>), cur)
    ELSE IF ~ext.result.has_success
    THEN Returned(UPDATE_STATUS_FAILED, cur, <<>>)
    ELSE IF ext.result.success \notin {"correct", "incorrect"}
    THEN Returned(UPDATE_STATUS_FAILED, cur, <<>>)
    ELSE IF ~ext.db_ok
    THEN Raised(DatabaseError, cur)
    ELSE Stored(Returned(UPDATE_STATUS_SUCCEEDED, cur, <<>>))

\* lines 557-604.  instance.save() (line 591) stores the instance's state
\* before the result is looked at; the fields rescoring recomputes are not
\* part of the state text kept here, which is stored as it was read.
rescore_problem_module_state(m, cur, ext) ==
    IF ext.inst = "none"
    THEN Raised(Exc("UpdateProblemModuleStateError", <<"No module for student--access denied?">>), cur)
    ELSE IF ext.inst = "no_rescore"
    THEN Raised(Exc("UpdateProblemModuleStateError", <<"Specified problem does not support rescoring.">>), cur)
    ELSE IF ~ext.db_ok
    THEN Raised(DatabaseError, cur)
    ELSE IF ~ext.result.has_success
    THEN Stored(Returned(UPDATE_STATUS_FAILED, cur, <<>>))
    ELSE IF ext.result.success \notin {"correct", "incorrect"}
    THEN Stored(Returned(UPDATE_STATUS_FAILED, cur, <<>>))
    ELSE Stored(Returned(UPDATE_STATUS_SUCCEEDED, cur, <<>>))

\* an update_fcn written to the contract the docstring of
\* perform_module_state_update states (lines 314-319): it changes nothing here
\* and returns True when the update worked and False when it did not
boolean_update_fcn(m, cur, ext) ==
    Returned(IF ext.db_ok THEN "True" ELSE "False", cur, <<>>)

\* what grading one student does: grade_as_task returns a gradeset and the row
\* is stored, or a module of the student cannot be loaded, or storage fails
GradeExts == {"graded", "module_failure", "db_error"}

\* the grading of the docstring of lines 817-819: true whatever grading did
update_offline_grade_always_true(student, cur, gext) ==
    IF gext = "module_failure"
    THEN Returned("True", cur, <<>>)
    ELSE IF gext = "db_error"
    THEN Raised(DatabaseError, cur)
    ELSE Stored(Returned("True", Grade("grades"),
                         <<track_function(student, "offline_grade",
                                          << <<"created", ~cur.present>> >>)>>))

\* lines 814-848; cur is the student's stored OfflineComputedGrade row
update_offline_grade(student, cur, gext) ==
    IF gext = "module_failure"
    THEN Returned("False", cur, <<>>)
    ELSE IF gext = "db_error"
    THEN Raised(DatabaseError, cur)
    ELSE Stored(Returned("True", Grade("grades"),
                         <<track_function(student, "offline_grade",
                                          << <<"created", ~cur.present>> >>)>>))

\* the kinds of task an entry is queued for
ModuleTaskTypes ==
    {"reset_problem_attempts", "delete_problem_state", "rescore_problem", "boolean_update"}

\* the (visit_fcn, update_fcn, filter_fcn) the task function of each kind
\* hands to run_update_task
TaskCall(task_type) ==
    CASE task_type = "reset_problem_attempts" ->
           <<"perform_module_state_update", "reset_attempts_module_state", "None">>
      [] task_type = "delete_problem_state" ->
           <<"perform_module_state_update", "delete_problem_module_state", "None">>
      [] task_type = "rescore_problem" ->
           <<"perform_module_state_update", "rescore_problem_module_state", "nonempty_state">>
      [] task_type = "boolean_update" ->
           <<"perform_module_state_update", "boolean_update_fcn", "None">>
      [] task_type = "update_offline_grades" ->
           <<"perform_enrolled_student_update", "update_offline_grade", "None">>

\* update_fcn(module_descriptor, module_to_update)
update_fcn(f, m, cur, ext) ==
    IF f = "reset_attempts_module_state" THEN reset_attempts_module_state(m, cur, ext)
    ELSE IF f = "delete_problem_module_state" THEN delete_problem_module_state(m, cur, ext)
    ELSE IF f = "rescore_problem_module_state" THEN rescore_problem_module_state(m, cur, ext)
    ELSE boolean_update_fcn(m, cur, ext)

\* ------------------------------------------------------------------ state
VARIABLES
    entry,      \* the InstructorTask row with pk 1 (no row has pk 2)
    sm,         \* StudentModule rows of (CourseId, ProblemUrl), by student
    now,        \* wall clock read by time()
    run,        \* the locals of the run_update_task call in progress
    published,  \* update_state(state=PROGRESS, meta=...) calls of this run
    visited,    \* update_fcn calls of this run: [student, status, exc, row before,
                \* row after, events, wrote (save() or delete() stored the row)]
    events,     \* task_track events emitted during this run
    saved,      \* entry.save_now() calls of this run: [task_state, task_output]
    queries,    \* django.db.connection.queries holds queries of this worker
    ocg,        \* OfflineComputedGrade rows of CourseId, by student
    enrolled    \* the users with a CourseEnrollment for CourseId

vars == <<entry, sm, now, run, published, visited, events, saved, queries, ocg, enrolled>>

NoProgress ==
    [action_name |-> "", attempted |-> 0, succeeded |-> 0, skipped |-> 0,
     failed |-> 0, total |-> 0, duration_ms |-> 0]

NoQuery == [student |-> 0, filter_fcn |-> "None"]

IdleRun ==
    [pc |-> "idle", request_id |-> "", entry_id |-> 0, visit_fcn |-> "",
     update_fcn |-> "", filter_fcn |-> "None",
     entry |-> [task_id |-> "", task_type |-> "", course_id |-> "",
     task_input |-> [problem_url |-> "", student |-> None], task_state |-> "",
     task_output |-> NoOutput],
     module_state_key |-> "", student_ident |-> None, start_time |-> 0,
     query |-> NoQuery, num_attempted |-> 0, num_succeeded |-> 0,
     num_skipped |-> 0, num_failed |-> 0, num_updated |-> 0, num_total |-> 0,
     task_progress |-> NoProgress, has_progress |-> FALSE, fetched |-> <<>>,
     exc |-> NoExc, traceback |-> <<>>, state_at_load |-> ""]

Init ==
    /\ \/ /\ entry \in [task_id : {"t1"}, task_type : ModuleTaskTypes, course_id : {CourseId},
                         task_input : TaskInputs, task_state : {"PENDING"},
                         task_output : {NoOutput}]
          /\ sm \in [Students -> InitRows]
          /\ ocg = [s \in Students |-> NoGrade]
          /\ enrolled = Students
       \/ /\ entry \in [task_id : {"t1"}, task_type : {"update_offline_grades"},
                         course_id : {CourseId}, task_input : GradeInputs,
                         task_state : {"PENDING"}, task_output : {NoOutput}]
          /\ sm = [s \in Students |-> Row(EmptyBlob)]
          /\ ocg \in [Students -> {NoGrade, Grade("stale")}]
          /\ enrolled \in InitEnrolled
    /\ now = 0
    /\ run = IdleRun
    /\ published = <<>>
    /\ visited = <<>>
    /\ events = <<>>
    /\ saved = <<>>
    /\ queries = FALSE

\* ------------------------------------------------------------ environment
\* Celery hands a run of the task to a worker: the task function of the kind
\* the entry was queued for calls run_update_task
Dispatch ==
    /\ run.pc \in {"idle", "returned", "raised"}
    /\ \E rid \in TaskIds, eid \in EntryIds :
          LET call == TaskCall(entry.task_type)
          IN  run' = [IdleRun EXCEPT !.pc = "load", !.request_id = rid, !.entry_id = eid,
                                     !.visit_fcn = call[1], !.update_fcn = call[2],
                                     !.filter_fcn = call[3]]
    /\ now' = 0
    /\ published' = <<>>
    /\ visited' = <<>>
    /\ events' = <<>>
    /\ saved' = <<>>
    /\ UNCHANGED <<entry, sm, queries, ocg, enrolled>>

\* the LMS creates the StudentModule row of a student who opens the problem.
\* A row created before the runner counts is one more initial row, and a row
\* created after the runner has read its rows is not seen by the run: the rows
\* produced here are those created between the count and the read.
\* a user enrolls in the course between the count of line 266 and the
\* evaluation of the query by the loop of line 281
LmsEnroll ==
    /\ run.pc = "pesu_fetch"
    /\ \E s \in Students \ enrolled : enrolled' = enrolled \cup {s}
    /\ UNCHANGED <<entry, sm, now, run, published, visited, events, saved, queries, ocg>>

LmsCreateModule ==
    /\ run.pc = "pmsu_fetch"
    /\ \E s \in Students, r \in NewRows :
          /\ ~sm[s].present
          /\ sm' = [sm EXCEPT ![s] = r]
    /\ UNCHANGED <<entry, now, run, published, visited, events, saved, queries, ocg, enrolled>>

\* time passes while the loop runs; the clock is read only by
\* get_task_progress, as a difference from start_time
Tick ==
    /\ run.pc \in {"pmsu_loop", "pesu_loop"}
    /\ now < MaxTime
    /\ now' = now + 1
    /\ UNCHANGED <<entry, sm, run, published, visited, events, saved, queries, ocg, enrolled>>

\* ---------------------------------------------------------- run_update_task
\* loading the entry and marking it as in progress
LoadEntry_mark_progress ==
    /\ run.pc = "load"
    /\ run.entry_id = 1
    /\ entry' = [entry EXCEPT !.task_state = PROGRESS]
    /\ run' = [run EXCEPT !.pc = "check", !.entry = entry', !.state_at_load = entry.task_state,
                          !.module_state_key = entry.task_input.problem_url,
                          !.student_ident = entry.task_input.student]
    /\ saved' = Append(saved, [task_state |-> entry'.task_state, task_output |-> entry'.task_output])
    /\ queries' = TRUE
    /\ UNCHANGED <<sm, now, published, visited, events, ocg, enrolled>>

\* the lookup made inside the try block, its failure handled like any other
LoadEntry_inside_try ==
    /\ run.pc = "load"
    /\ IF run.entry_id # 1
       THEN run' = [run EXCEPT !.pc = "except",
                               !.exc = Exc("DoesNotExist", <<"InstructorTask matching query does not exist.">>),
                               !.traceback = <<"run_update_task">>]
       ELSE run' = [run EXCEPT !.pc = "check", !.entry = entry,
                               !.state_at_load = entry.task_state,
                               !.module_state_key = entry.task_input.problem_url,
                               !.student_ident = entry.task_input.student]
    /\ queries' = TRUE
    /\ UNCHANGED <<entry, sm, now, published, visited, events, saved, ocg, enrolled>>

\* lines 441-448: load the entry and its inputs
LoadEntry ==
    /\ run.pc = "load"
    /\ IF run.entry_id # 1
       THEN run' = [run EXCEPT !.pc = "raised",
                               !.exc = Exc("DoesNotExist", <<"InstructorTask matching query does not exist.">>),
                               !.traceback = <<"run_update_task">>]
       ELSE run' = [run EXCEPT !.pc = "check", !.entry = entry,
                               !.state_at_load = entry.task_state,
                               !.module_state_key = entry.task_input.problem_url,
                               !.student_ident = entry.task_input.student]
    /\ queries' = TRUE
    /\ UNCHANGED <<entry, sm, now, published, visited, events, saved, ocg, enrolled>>

\* the identity check left out
task_id_mismatch_never(task_id, request_task_id) == FALSE

task_id_mismatch(task_id, request_task_id) == task_id # request_task_id

\* the identity check that logs a mismatch and goes on
CheckTaskId_log_only ==
    /\ run.pc = "check"
    /\ run' = [run EXCEPT !.pc = IF run.visit_fcn = "perform_module_state_update"
                                 THEN "pmsu_enter" ELSE "pesu_enter"]
    /\ UNCHANGED <<entry, sm, now, published, visited, events, saved, queries, ocg, enrolled>>

\* lines 461-466: the identity check
CheckTaskId ==
    /\ run.pc = "check"
    /\ IF task_id_mismatch(run.entry.task_id, run.request_id)
       THEN run' = [run EXCEPT !.pc = "except",
                               !.exc = Exc("UpdateProblemModuleStateError",
                                           MismatchMessage(run.request_id, run.entry.task_id,
                                                           run.entry.course_id, run.module_state_key)),
                               !.traceback = <<"run_update_task">>]
       ELSE run' = [run EXCEPT !.pc = IF run.visit_fcn = "perform_module_state_update"
                                      THEN "pmsu_enter" ELSE "pesu_enter"]
    /\ UNCHANGED <<entry, sm, now, published, visited, events, saved, queries, ocg, enrolled>>

\* ---------------------------------------------- perform_module_state_update
HasAt(ident) == \E i \in DOMAIN ident : ident[i] = "@"

\* every identifier looked up as a username
ResolveStudent_by_username(ident) ==
    {s \in Students : Username(s) = ident}

\* lines 352-359: User.objects.get(email=...) or User.objects.get(username=...)
ResolveStudent(ident) ==
    IF HasAt(ident)
    THEN {s \in Students : Email(s) = ident}
    ELSE {s \in Students : Username(s) = ident}

\* the caller-supplied filter_fcn, applied to the query last (lines 364-365)
FilterFcn(ff, row) == ff = "None" \/ ~row.state.empty

\* the rows a query selects from the table, in primary-key order
Matching(q, table) ==
    SelectSeq([i \in 1..NumStudents |-> i],
              LAMBDA s : /\ table[s].present
                         /\ (q.student = 0 \/ q.student = s)
                         /\ FilterFcn(q.filter_fcn, table[s]))

\* get_task_progress recounting the live collection for every snapshot
get_task_progress_recount(l, current_time) ==
    [action_name |-> ActionName, attempted |-> l.num_attempted,
     succeeded |-> l.num_succeeded, skipped |-> l.num_skipped,
     failed |-> l.num_failed, total |-> Len(Matching(l.query, sm)),
     duration_ms |-> (current_time - l.start_time) * 1000]

\* get_task_progress reporting only the updates that were tried as attempted
get_task_progress_noskip(l, current_time) ==
    [action_name |-> ActionName, attempted |-> l.num_succeeded + l.num_failed,
     succeeded |-> l.num_succeeded, skipped |-> l.num_skipped,
     failed |-> l.num_failed, total |-> l.num_total,
     duration_ms |-> (current_time - l.start_time) * 1000]

\* lines 374-385
get_task_progress(l, current_time) ==
    [action_name |-> ActionName, attempted |-> l.num_attempted,
     succeeded |-> l.num_succeeded, skipped |-> l.num_skipped,
     failed |-> l.num_failed, total |-> l.num_total,
     duration_ms |-> (current_time - l.start_time) * 1000]

\* lines 338-341: start_time, then module_state_key and student_identifier are
\* rebound from the free name task_input.  The function has no such local and
\* the module binds no such global: the lookup raises NameError, unless the
\* name has been bound in the module namespace from outside, to the decoded
\* task input that lines 446-448 read the same two values from.
PmsuEnter ==
    /\ run.pc = "pmsu_enter"
    /\ \E bound \in BOOLEAN :
          IF ~bound
          THEN run' = [run EXCEPT !.pc = "except", !.start_time = now,
                                  !.exc = Exc("NameError", <<"global name 'task_input' is not defined">>),
                                  !.traceback = <<"run_update_task", "perform_module_state_update">>]
          ELSE run' = [run EXCEPT !.pc = "pmsu_resolve", !.start_time = now,
                                  !.module_state_key = run.entry.task_input.problem_url,
                                  !.student_ident = run.entry.task_input.student]
    /\ UNCHANGED <<entry, sm, now, published, visited, events, saved, queries, ocg, enrolled>>

\* lines 344-365: build the (lazy) query, resolving the student if one is named
PmsuResolve ==
    /\ run.pc = "pmsu_resolve"
    /\ IF run.student_ident.some /\ ResolveStudent(run.student_ident.val) = {}
       THEN run' = [run EXCEPT !.pc = "except",
                               !.exc = Exc("DoesNotExist", <<"User matching query does not exist.">>),
                               !.traceback = <<"run_update_task", "perform_module_state_update">>]
       ELSE run' = [run EXCEPT !.pc = "pmsu_count",
                               !.query = [student |-> IF run.student_ident.some
                                                      THEN CHOOSE s \in ResolveStudent(run.student_ident.val) : TRUE
                                                      ELSE 0,
                                          filter_fcn |-> run.filter_fcn]]
    /\ UNCHANGED <<entry, sm, now, published, visited, events, saved, queries, ocg, enrolled>>

\* lines 368-388: zero the counters, count the query, publish the first snapshot
\* the count that also stores the first snapshot in the entry
PmsuCount_save_progress ==
    /\ run.pc = "pmsu_count"
    /\ LET l == [run EXCEPT !.num_attempted = 0, !.num_succeeded = 0, !.num_skipped = 0,
                            !.num_failed = 0, !.num_total = Len(Matching(run.query, sm))]
           progress == get_task_progress(l, now)
       IN  /\ entry' = [entry EXCEPT !.task_state = PROGRESS,
                                     !.task_output = create_output_for_success(progress)]
           /\ run' = [l EXCEPT !.pc = "pmsu_fetch", !.task_progress = progress,
                               !.entry = entry']
           /\ published' = Append(published, progress)
           /\ saved' = Append(saved, [task_state |-> entry'.task_state,
                                     task_output |-> entry'.task_output])
    /\ queries' = TRUE
    /\ UNCHANGED <<sm, now, visited, events, ocg, enrolled>>

PmsuCount ==
    /\ run.pc = "pmsu_count"
    /\ LET l == [run EXCEPT !.num_attempted = 0, !.num_succeeded = 0, !.num_skipped = 0,
                            !.num_failed = 0, !.num_total = Len(Matching(run.query, sm))]
           progress == get_task_progress(l, now)
       IN  /\ run' = [l EXCEPT !.pc = "pmsu_fetch", !.task_progress = progress]
           /\ published' = Append(published, progress)
    /\ queries' = TRUE
    /\ UNCHANGED <<entry, sm, now, visited, events, saved, ocg, enrolled>>

\* line 389, first iteration: the query is evaluated and its rows are read
PmsuFetch ==
    /\ run.pc = "pmsu_fetch"
    /\ LET ids == Matching(run.query, sm)
       IN  run' = [run EXCEPT !.pc = "pmsu_loop",
                              !.fetched = [i \in 1..Len(ids) |->
                                             [student |-> ids[i], state |-> sm[ids[i]].state]]]
    /\ queries' = TRUE
    /\ UNCHANGED <<entry, sm, now, published, visited, events, saved, ocg, enrolled>>

\* the classification by truth value: whatever is not failed or skipped counts
\* as succeeded
Classify_truthy(l, update_status) ==
    IF update_status = UPDATE_STATUS_FAILED
    THEN [ok |-> TRUE, l |-> [l EXCEPT !.num_failed = @ + 1]]
    ELSE IF update_status = UPDATE_STATUS_SKIPPED
    THEN [ok |-> TRUE, l |-> [l EXCEPT !.num_skipped = @ + 1]]
    ELSE [ok |-> TRUE, l |-> [l EXCEPT !.num_succeeded = @ + 1]]

\* the classification of the docstring of lines 314-319: a boolean result
Classify_boolean(l, update_status) ==
    IF update_status \in {UPDATE_STATUS_SUCCEEDED, "True"}
    THEN [ok |-> TRUE, l |-> [l EXCEPT !.num_succeeded = @ + 1]]
    ELSE IF update_status \in {UPDATE_STATUS_FAILED, "False"}
    THEN [ok |-> TRUE, l |-> [l EXCEPT !.num_failed = @ + 1]]
    ELSE IF update_status = UPDATE_STATUS_SKIPPED
    THEN [ok |-> TRUE, l |-> [l EXCEPT !.num_skipped = @ + 1]]
    ELSE [ok |-> FALSE, l |-> l]

\* the classification that treats a failed target as fatal
Classify_fail_fast(l, update_status) ==
    IF update_status = UPDATE_STATUS_SUCCEEDED
    THEN [ok |-> TRUE, l |-> [l EXCEPT !.num_succeeded = @ + 1]]
    ELSE IF update_status = UPDATE_STATUS_SKIPPED
    THEN [ok |-> TRUE, l |-> [l EXCEPT !.num_skipped = @ + 1]]
    ELSE [ok |-> FALSE, l |-> l]

\* lines 395-404: the counters after one update_status; ok is FALSE for the
\* final else branch
Classify(l, update_status) ==
    IF update_status = UPDATE_STATUS_SUCCEEDED
    THEN [ok |-> TRUE, l |-> [l EXCEPT !.num_succeeded = @ + 1]]
    ELSE IF update_status = UPDATE_STATUS_FAILED
    THEN [ok |-> TRUE, l |-> [l EXCEPT !.num_failed = @ + 1]]
    ELSE IF update_status = UPDATE_STATUS_SKIPPED
    THEN [ok |-> TRUE, l |-> [l EXCEPT !.num_skipped = @ + 1]]
    ELSE [ok |-> FALSE, l |-> l]

\* the loop body catching the visitor's exception and counting a failure
VisitStep_swallow(l0, res, current_time) ==
    LET c == Classify(l0, IF res.raised THEN UPDATE_STATUS_FAILED ELSE res.status)
    IN  IF ~c.ok
        THEN [publish |-> FALSE,
              run |-> [l0 EXCEPT !.pc = "except",
                                 !.exc = Exc("UpdateProblemModuleStateError",
                                             <<"Unexpected update_status returned", res.status>>),
                                 !.traceback = <<"run_update_task", "perform_module_state_update">>]]
        ELSE [publish |-> TRUE,
              run |-> [c.l EXCEPT !.task_progress = get_task_progress(c.l, current_time)]]

\* the loop body publishing a snapshot for every second target only
VisitStep_batched(l0, res, current_time) ==
    LET tb == <<"run_update_task", "perform_module_state_update">>
        c == Classify(l0, res.status)
    IN  IF res.raised
        THEN [publish |-> FALSE,
              run |-> [l0 EXCEPT !.pc = "except", !.exc = res.exc,
                                 !.traceback = Append(tb, l0.update_fcn)]]
        ELSE IF ~c.ok
        THEN [publish |-> FALSE,
              run |-> [l0 EXCEPT !.pc = "except",
                                 !.exc = Exc("UpdateProblemModuleStateError",
                                             <<"Unexpected update_status returned", res.status>>),
                                 !.traceback = tb]]
        ELSE [publish |-> l0.num_attempted % 2 = 0,
              run |-> [c.l EXCEPT !.task_progress = get_task_progress(c.l, current_time)]]

\* the loop body wrapping the visitor's exception in its own error
VisitStep_wrap(l0, res, current_time) ==
    LET tb == <<"run_update_task", "perform_module_state_update">>
        c == Classify(l0, res.status)
    IN  IF res.raised
        THEN [publish |-> FALSE,
              run |-> [l0 EXCEPT !.pc = "except",
                                 !.exc = Exc("UpdateProblemModuleStateError",
                                             <<res.exc.kind>> \o res.exc.message),
                                 !.traceback = tb]]
        ELSE IF ~c.ok
        THEN [publish |-> FALSE,
              run |-> [l0 EXCEPT !.pc = "except",
                                 !.exc = Exc("UpdateProblemModuleStateError",
                                             <<"Unexpected update_status returned", res.status>>),
                                 !.traceback = tb]]
        ELSE [publish |-> TRUE,
              run |-> [c.l EXCEPT !.task_progress = get_task_progress(c.l, current_time)]]

\* lines 394-408: what the loop body does with the outcome of update_fcn.
\* A raised exception is not caught; an update_status outside the three values
\* raises; otherwise the counter is stepped and a new snapshot is built.
VisitStep(l0, res, current_time) ==
    LET tb == <<"run_update_task", "perform_module_state_update">>
        c == Classify(l0, res.status)
    IN  IF res.raised
        THEN [publish |-> FALSE,
              run |-> [l0 EXCEPT !.pc = "except", !.exc = res.exc,
                                 !.traceback = Append(tb, l0.update_fcn)]]
        ELSE IF ~c.ok
        THEN [publish |-> FALSE,
              run |-> [l0 EXCEPT !.pc = "except",
                                 !.exc = Exc("UpdateProblemModuleStateError",
                                             <<"Unexpected update_status returned", res.status>>),
                                 !.traceback = tb]]
        ELSE [publish |-> TRUE,
              run |-> [c.l EXCEPT !.task_progress = get_task_progress(c.l, current_time)]]

\* the iteration that catches the visitor's exception once and calls the
\* visitor for the same target again
PmsuVisit_retry ==
    /\ run.pc = "pmsu_loop"
    /\ run.fetched # <<>>
    /\ \E ext \in Exts :
          LET m == Head(run.fetched)
              l0 == [run EXCEPT !.num_attempted = @ + 1, !.fetched = Tail(@)]
              res == update_fcn(run.update_fcn, m, sm[m.student], ext)
              step == VisitStep(l0, res, now)
              retry == res.raised /\ \A i \in DOMAIN visited : visited[i].student # m.student
          IN  /\ sm' = [sm EXCEPT ![m.student] = res.row]
              /\ events' = events \o res.events
              /\ visited' = Append(visited, [student |-> m.student,
                                             status |-> IF res.raised THEN "raised" ELSE res.status,
                                             exc |-> res.exc, before |-> sm[m.student],
                                             after |-> res.row, events |-> res.events,
                                             wrote |-> res.wrote])
              /\ run' = IF retry THEN run ELSE step.run
              /\ published' = IF step.publish /\ ~retry
                              THEN Append(published, step.run.task_progress)
                              ELSE published
    /\ UNCHANGED <<entry, now, saved, queries, ocg, enrolled>>

\* lines 389-408: one iteration of the loop
PmsuVisit ==
    /\ run.pc = "pmsu_loop"
    /\ run.fetched # <<>>
    /\ \E ext \in Exts :
          LET m == Head(run.fetched)
              l0 == [run EXCEPT !.num_attempted = @ + 1, !.fetched = Tail(@)]
              res == update_fcn(run.update_fcn, m, sm[m.student], ext)
              step == VisitStep(l0, res, now)
          IN  /\ sm' = [sm EXCEPT ![m.student] = res.row]
              /\ events' = events \o res.events
              /\ visited' = Append(visited, [student |-> m.student,
                                             status |-> IF res.raised THEN "raised" ELSE res.status,
                                             exc |-> res.exc, before |-> sm[m.student],
                                             after |-> res.row, events |-> res.events,
                                             wrote |-> res.wrote])
              /\ run' = step.run
              /\ published' = IF step.publish
                              THEN Append(published, step.run.task_progress)
                              ELSE published
    /\ UNCHANGED <<entry, now, saved, queries, ocg, enrolled>>

\* line 410 and the assignment of line 470
\* the loop that waits for more targets when the enumeration is exhausted
PmsuReturn_wait ==
    /\ run.pc = "pmsu_loop"
    /\ run.fetched = <<>>
    /\ UNCHANGED vars

PmsuReturn ==
    /\ run.pc = "pmsu_loop"
    /\ run.fetched = <<>>
    /\ run' = [run EXCEPT !.pc = "commit", !.has_progress = TRUE]
    /\ UNCHANGED <<entry, sm, now, published, visited, events, saved, queries, ocg, enrolled>>

\* ------------------------------------------ perform_enrolled_student_update
\* the enrolled students a query selects, in username order
EnrolledMatching(q) ==
    SelectSeq([i \in 1..NumStudents |-> i],
              LAMBDA s : s \in enrolled /\ (q.student = 0 \/ q.student = s))

\* lines 268-277
get_task_progress_enrolled(l, current_time) ==
    [action_name |-> ActionName, attempted |-> l.num_attempted,
     updated |-> l.num_updated, total |-> l.num_total,
     duration_ms |-> (current_time - l.start_time) * 1000]

\* the entry that ignores a problem_url it was given
PesuEnter_ignore_key ==
    /\ run.pc = "pesu_enter"
    /\ run' = [run EXCEPT !.pc = "pesu_resolve", !.start_time = now]
    /\ UNCHANGED <<entry, sm, now, published, visited, events, saved, queries, ocg, enrolled>>

\* lines 231-235: a problem_url is not accepted; start_time
PesuEnter ==
    /\ run.pc = "pesu_enter"
    /\ IF run.module_state_key # NoUrl
       THEN run' = [run EXCEPT !.pc = "except",
                               !.exc = Exc("ValueError", <<"Value for problem_url not expected">>),
                               !.traceback = <<"run_update_task", "perform_enrolled_student_update">>]
       ELSE run' = [run EXCEPT !.pc = "pesu_resolve", !.start_time = now]
    /\ UNCHANGED <<entry, sm, now, published, visited, events, saved, queries, ocg, enrolled>>

\* lines 241-261: build the (lazy) query, resolving the student if one is named
PesuResolve ==
    /\ run.pc = "pesu_resolve"
    /\ IF run.student_ident.some /\ ResolveStudent(run.student_ident.val) = {}
       THEN run' = [run EXCEPT !.pc = "except",
                               !.exc = Exc("DoesNotExist", <<"User matching query does not exist.">>),
                               !.traceback = <<"run_update_task", "perform_enrolled_student_update">>]
       ELSE run' = [run EXCEPT !.pc = "pesu_count",
                               !.query = [student |-> IF run.student_ident.some
                                                      THEN CHOOSE s \in ResolveStudent(run.student_ident.val) : TRUE
                                                      ELSE 0,
                                          filter_fcn |-> run.filter_fcn]]
    /\ UNCHANGED <<entry, sm, now, published, visited, events, saved, queries, ocg, enrolled>>

\* lines 264-280: zero the counters, count the query, publish the first snapshot
PesuCount ==
    /\ run.pc = "pesu_count"
    /\ LET l == [run EXCEPT !.num_updated = 0, !.num_attempted = 0,
                            !.num_total = Len(EnrolledMatching(run.query))]
           progress == get_task_progress_enrolled(l, now)
       IN  /\ run' = [l EXCEPT !.pc = "pesu_fetch", !.task_progress = progress]
           /\ published' = Append(published, progress)
    /\ queries' = TRUE
    /\ UNCHANGED <<entry, sm, now, visited, events, saved, ocg, enrolled>>

\* line 281, first iteration: the query is evaluated and its rows are read
PesuFetch ==
    /\ run.pc = "pesu_fetch"
    /\ LET ids == EnrolledMatching(run.query)
       IN  run' = [run EXCEPT !.pc = "pesu_loop",
                              !.fetched = [i \in 1..Len(ids) |-> [student |-> ids[i]]]]
    /\ queries' = TRUE
    /\ UNCHANGED <<entry, sm, now, published, visited, events, saved, ocg, enrolled>>

\* lines 281-298: one iteration of the loop.  update_offline_grade ends with
\* reset_queries() when it returns; the loop stops after GradingCap students.
PesuVisit ==
    /\ run.pc = "pesu_loop"
    /\ run.fetched # <<>>
    /\ \E gext \in GradeExts :
          LET m == Head(run.fetched)
              l0 == [run EXCEPT !.num_attempted = @ + 1, !.fetched = Tail(@)]
              res == update_offline_grade(m.student, ocg[m.student], gext)
              l1 == IF res.status = "True" THEN [l0 EXCEPT !.num_updated = @ + 1] ELSE l0
              l2 == [l1 EXCEPT !.task_progress = get_task_progress_enrolled(l1, now)]
              l3 == IF l2.num_attempted = GradingCap THEN [l2 EXCEPT !.fetched = <<>>] ELSE l2
          IN  /\ ocg' = [ocg EXCEPT ![m.student] = res.row]
              /\ events' = events \o res.events
              /\ visited' = Append(visited, [student |-> m.student,
                                             status |-> IF res.raised THEN "raised" ELSE res.status,
                                             exc |-> res.exc, before |-> ocg[m.student],
                                             after |-> res.row, events |-> res.events,
                                             wrote |-> res.wrote])
              /\ IF res.raised
                 THEN /\ run' = [l0 EXCEPT !.pc = "except", !.exc = res.exc,
                                           !.traceback = <<"run_update_task",
                                                           "perform_enrolled_student_update",
                                                           "update_offline_grade">>]
                      /\ published' = published
                      /\ queries' = TRUE
                 ELSE /\ run' = l3
                      /\ published' = Append(published, l2.task_progress)
                      /\ queries' = FALSE
    /\ UNCHANGED <<entry, sm, now, saved, enrolled>>

\* line 300 and the assignment of line 470
PesuReturn ==
    /\ run.pc = "pesu_loop"
    /\ run.fetched = <<>>
    /\ run' = [run EXCEPT !.pc = "commit", !.has_progress = TRUE]
    /\ UNCHANGED <<entry, sm, now, published, visited, events, saved, queries, ocg, enrolled>>

\* ------------------------------------------------- run_update_task, the end
\* the success commit writing the snapshot the run started with
CommitSuccess_stale ==
    /\ run.pc = "commit"
    /\ entry' = [run.entry EXCEPT !.task_output = create_output_for_success(published[1]),
                                  !.task_state = SUCCESS]
    /\ run' = [run EXCEPT !.pc = "finish", !.entry = entry']
    /\ saved' = Append(saved, [task_state |-> entry'.task_state, task_output |-> entry'.task_output])
    /\ queries' = TRUE
    /\ UNCHANGED <<sm, now, published, visited, events, ocg, enrolled>>

\* what lines 474-476 can raise: create_output_for_success refusing the
\* result, or save_now failing in the database
CommitFailures ==
    {[exc |-> Exc("ValueError", <<"task output cannot be stored">>),
      traceback |-> <<"run_update_task", "create_output_for_success">>],
     [exc |-> DatabaseError, traceback |-> <<"run_update_task", "save_now">>]}

\* the success commit placed after the try statement
CommitSuccess_after_try ==
    /\ run.pc = "commit"
    /\ \/ /\ entry' = [run.entry EXCEPT
                          !.task_output = create_output_for_success(run.task_progress),
                          !.task_state = SUCCESS]
          /\ run' = [run EXCEPT !.pc = "finish", !.entry = entry']
          /\ saved' = Append(saved, [task_state |-> entry'.task_state,
                                    task_output |-> entry'.task_output])
       \/ /\ \E f \in CommitFailures :
                run' = [run EXCEPT !.pc = "raised", !.exc = f.exc, !.traceback = f.traceback]
          /\ UNCHANGED <<entry, saved>>
    /\ queries' = TRUE
    /\ UNCHANGED <<sm, now, published, visited, events, ocg, enrolled>>

\* lines 474-476, inside the try statement: the output is built and the
\* entry saved, or one of the two calls raises and control passes to the
\* except clause with nothing stored
CommitSuccess ==
    /\ run.pc = "commit"
    /\ \/ /\ entry' = [run.entry EXCEPT
                          !.task_output = create_output_for_success(run.task_progress),
                          !.task_state = SUCCESS]
          /\ run' = [run EXCEPT !.pc = "finish", !.entry = entry']
          /\ saved' = Append(saved, [task_state |-> entry'.task_state,
                                    task_output |-> entry'.task_output])
       \/ /\ \E f \in CommitFailures :
                run' = [run EXCEPT !.pc = "except", !.exc = f.exc, !.traceback = f.traceback]
          /\ UNCHANGED <<entry, saved>>
    /\ queries' = TRUE
    /\ UNCHANGED <<sm, now, published, visited, events, ocg, enrolled>>

\* the except clause without its final raise
HandleException_swallow ==
    /\ run.pc = "except"
    /\ entry' = [run.entry EXCEPT !.task_output = create_output_for_failure(run.exc, run.traceback),
                                  !.task_state = FAILURE]
    /\ run' = [run EXCEPT !.pc = "finish", !.entry = entry']
    /\ saved' = Append(saved, [task_state |-> entry'.task_state, task_output |-> entry'.task_output])
    /\ queries' = TRUE
    /\ UNCHANGED <<sm, now, published, visited, events, ocg, enrolled>>

\* the except clause undoing what the visitors of this run stored
HandleException_rollback ==
    /\ run.pc = "except"
    /\ entry' = [run.entry EXCEPT !.task_output = create_output_for_failure(run.exc, run.traceback),
                                  !.task_state = FAILURE]
    /\ sm' = [s \in Students |->
                IF \E j \in DOMAIN visited : visited[j].student = s
                THEN visited[CHOOSE j \in DOMAIN visited : visited[j].student = s].before
                ELSE sm[s]]
    /\ run' = [run EXCEPT !.pc = "raised", !.entry = entry']
    /\ saved' = Append(saved, [task_state |-> entry'.task_state, task_output |-> entry'.task_output])
    /\ queries' = TRUE
    /\ UNCHANGED <<now, published, visited, events, ocg, enrolled>>

\* lines 478-486
HandleException ==
    /\ run.pc = "except"
    /\ entry' = [run.entry EXCEPT !.task_output = create_output_for_failure(run.exc, run.traceback),
                                  !.task_state = FAILURE]
    /\ run' = [run EXCEPT !.pc = "raised", !.entry = entry']
    /\ saved' = Append(saved, [task_state |-> entry'.task_state, task_output |-> entry'.task_output])
    /\ queries' = TRUE
    /\ UNCHANGED <<sm, now, published, visited, events, ocg, enrolled>>

\* the entry saved once more on the way out
Finish_resave ==
    /\ run.pc = "finish"
    /\ run' = [run EXCEPT !.pc = "returned"]
    /\ saved' = Append(saved, [task_state |-> entry.task_state, task_output |-> entry.task_output])
    /\ queries' = FALSE
    /\ UNCHANGED <<entry, sm, now, published, visited, events, ocg, enrolled>>

\* lines 488-493: reset_queries(), then the return
Finish ==
    /\ run.pc = "finish"
    /\ run' = [run EXCEPT !.pc = "returned"]
    /\ queries' = FALSE
    /\ UNCHANGED <<entry, sm, now, published, visited, events, saved, ocg, enrolled>>

Next ==
    \/ Dispatch
    \/ LmsCreateModule
    \/ LmsEnroll
    \/ Tick
    \/ LoadEntry
    \/ CheckTaskId
    \/ PmsuEnter
    \/ PmsuResolve
    \/ PmsuCount
    \/ PmsuFetch
    \/ PmsuVisit
    \/ PmsuReturn
    \/ PesuEnter
    \/ PesuResolve
    \/ PesuCount
    \/ PesuFetch
    \/ PesuVisit
    \/ PesuReturn
    \/ CommitSuccess
    \/ HandleException
    \/ Finish

Spec == Init /\ [][Next]_vars

\* the steps of the worker that executes run_update_task: straight-line code,
\* a loop over a finite collection and calls that return
RunStep ==
    \/ LoadEntry
    \/ CheckTaskId
    \/ PmsuEnter
    \/ PmsuResolve
    \/ PmsuCount
    \/ PmsuFetch
    \/ PmsuVisit
    \/ PmsuReturn
    \/ PesuEnter
    \/ PesuResolve
    \/ PesuCount
    \/ PesuFetch
    \/ PesuVisit
    \/ PesuReturn
    \/ CommitSuccess
    \/ HandleException
    \/ Finish

\* a worker that has started run_update_task keeps executing it: it is not
\* killed and every call it makes returns or raises
FairSpec == Spec /\ WF_vars(RunStep)

\* ------------------------------------------- BaseInstructorTask callbacks
\* Celery calls on_success with the value the task returned and on_failure
\* with the exception it raised; args[0] is the entry id.  The callbacks are
\* modelled on their own: which task functions run under this base class is
\* decided outside this file.  The entry carries its subtasks text here.

\* InstructorTask.subtasks: empty text, or the JSON text of the subtask status
Subtasks == {<<>>, <<"subtask_1">>}

\* values a task function returns
HookProgresses ==
    {[action_name |-> ActionName, attempted |-> n, succeeded |-> n, skipped |-> 0,
      failed |-> 0, total |-> NumStudents, duration_ms |-> 0] : n \in 0..NumStudents}

\* exceptions a task function raises, with the traceback einfo carries
HookFailures ==
    {[exc |-> DatabaseError, traceback |-> <<"run_main_task">>],
     [exc |-> Exc("UpdateProblemModuleStateError",
                  <<"Specified problem does not support rescoring.">>),
      traceback |-> <<"run_main_task", "perform_module_state_update",
                      "rescore_problem_module_state">>]}

HookIdle ==
    [pc |-> "hook_idle", hook |-> "", entry_id |-> 0, task_progress |-> NoProgress,
     exc |-> NoExc, traceback |-> <<>>, request_id |-> "", called |-> FALSE]

HookInit ==
    /\ entry \in [task_id : {"t1"}, task_type : {"rescore_problem"}, course_id : {CourseId},
                   task_input : {[problem_url |-> ProblemUrl, student |-> None]},
                   task_state : {"PENDING", PROGRESS}, task_output : {NoOutput},
                   subtasks : Subtasks]
    /\ run = HookIdle
    /\ saved = <<>>
    /\ sm = [s \in Students |-> Absent]
    /\ ocg = [s \in Students |-> NoGrade]
    /\ enrolled = Students
    /\ now = 0
    /\ published = <<>>
    /\ visited = <<>>
    /\ events = <<>>
    /\ queries = FALSE

\* Celery, after the task function returned or raised, enters the callback
CeleryCallback ==
    /\ run.pc \in {"hook_idle", "hook_returned", "hook_raised"}
    /\ \E entry_id \in EntryIds :
          \/ \E task_progress \in HookProgresses :
                run' = [HookIdle EXCEPT !.pc = "on_success", !.hook = "on_success",
                                        !.entry_id = entry_id,
                                        !.task_progress = task_progress]
          \/ \E einfo \in HookFailures :
                run' = [HookIdle EXCEPT !.pc = "on_failure", !.hook = "on_failure",
                                        !.entry_id = entry_id, !.exc = einfo.exc,
                                        !.traceback = einfo.traceback]
    /\ saved' = <<>>
    /\ UNCHANGED <<entry, sm, now, published, visited, events, queries, ocg, enrolled>>

\* on_success writing whether or not subtasks were defined
on_success_always ==
    /\ run.pc = "on_success"
    /\ IF run.entry_id # 1
       THEN /\ run' = [run EXCEPT !.pc = "hook_raised",
                                  !.exc = Exc("DoesNotExist",
                                              <<"InstructorTask matching query does not exist.">>)]
            /\ UNCHANGED <<entry, saved, enrolled>>
       ELSE /\ entry' = [entry EXCEPT
                            !.task_output = create_output_for_success(run.task_progress),
                            !.task_state = SUCCESS]
            /\ saved' = Append(saved, [task_state |-> entry'.task_state,
                                      task_output |-> entry'.task_output])
            /\ run' = [run EXCEPT !.pc = "hook_returned"]
    /\ UNCHANGED <<sm, now, published, visited, events, queries, ocg, enrolled>>

\* lines 62-97.  The lookup of line 91 is not guarded: a missing entry raises.
on_success ==
    /\ run.pc = "on_success"
    /\ IF run.entry_id # 1
       THEN /\ run' = [run EXCEPT !.pc = "hook_raised",
                                  !.exc = Exc("DoesNotExist",
                                              <<"InstructorTask matching query does not exist.">>)]
            /\ UNCHANGED <<entry, saved, enrolled>>
       ELSE /\ IF Len(entry.subtasks) = 0
               THEN /\ entry' = [entry EXCEPT
                                    !.task_output = create_output_for_success(run.task_progress),
                                    !.task_state = SUCCESS]
                    /\ saved' = Append(saved, [task_state |-> entry'.task_state,
                                              task_output |-> entry'.task_output])
               ELSE UNCHANGED <<entry, saved, enrolled>>
            /\ run' = [run EXCEPT !.pc = "hook_returned"]
    /\ UNCHANGED <<sm, now, published, visited, events, queries, ocg, enrolled>>

\* on_failure with the lookup unguarded, as in on_success
on_failure_unguarded ==
    /\ run.pc = "on_failure"
    /\ IF run.entry_id # 1
       THEN /\ run' = [run EXCEPT !.pc = "hook_raised",
                                  !.exc = Exc("DoesNotExist",
                                              <<"InstructorTask matching query does not exist.">>)]
            /\ UNCHANGED <<entry, saved, enrolled>>
       ELSE /\ entry' = [entry EXCEPT
                            !.task_output = create_output_for_failure(run.exc, run.traceback),
                            !.task_state = FAILURE]
            /\ saved' = Append(saved, [task_state |-> entry'.task_state,
                                      task_output |-> entry'.task_output])
            /\ run' = [run EXCEPT !.pc = "hook_returned"]
    /\ UNCHANGED <<sm, now, published, visited, events, queries, ocg, enrolled>>

\* lines 99-128.  DoesNotExist is caught and logged.
on_failure ==
    /\ run.pc = "on_failure"
    /\ IF run.entry_id # 1
       THEN UNCHANGED <<entry, saved, enrolled>>
       ELSE /\ entry' = [entry EXCEPT
                            !.task_output = create_output_for_failure(run.exc, run.traceback),
                            !.task_state = FAILURE]
            /\ saved' = Append(saved, [task_state |-> entry'.task_state,
                                      task_output |-> entry'.task_output])
    /\ run' = [run EXCEPT !.pc = "hook_returned"]
    /\ UNCHANGED <<sm, now, published, visited, events, queries, ocg, enrolled>>

\* ------------------------------------------------------- run_main_task
\* lines 186-192: the message of the identity check of run_main_task
MainMismatchMessage(actual_id, task_id, course_id, task_input) ==
    <<"Requested task did not match actual task", actual_id,
      "task", task_id, "course", course_id, "input", task_input>>

\* Celery hands a task whose function calls run_main_task to a worker
MainDispatch ==
    /\ run.pc \in {"hook_idle", "hook_returned", "hook_raised"}
    /\ \E rid \in TaskIds, eid \in EntryIds :
          run' = [HookIdle EXCEPT !.pc = "main_load", !.request_id = rid, !.entry_id = eid]
    /\ saved' = <<>>
    /\ UNCHANGED <<entry, sm, now, published, visited, events, queries, ocg, enrolled>>

\* line 178: the lookup is not guarded
MainLoadEntry ==
    /\ run.pc = "main_load"
    /\ IF run.entry_id # 1
       THEN run' = [run EXCEPT !.pc = "main_raised",
                               !.exc = Exc("DoesNotExist",
                                           <<"InstructorTask matching query does not exist.">>),
                               !.traceback = <<"run_main_task">>]
       ELSE run' = [run EXCEPT !.pc = "main_check"]
    /\ queries' = TRUE
    /\ UNCHANGED <<entry, sm, now, published, visited, events, saved, ocg, enrolled>>

\* the identity check recording the failure in the entry, as run_update_task does
MainCheckTaskId_record_failure ==
    /\ run.pc = "main_check"
    /\ IF task_id_mismatch(entry.task_id, run.request_id)
       THEN /\ run' = [run EXCEPT !.pc = "main_raised",
                                  !.exc = Exc("ValueError",
                                              MainMismatchMessage(run.request_id, entry.task_id,
                                                                  entry.course_id, entry.task_input)),
                                  !.traceback = <<"run_main_task">>]
            /\ entry' = [entry EXCEPT
                            !.task_output = create_output_for_failure(run'.exc, run'.traceback),
                            !.task_state = FAILURE]
            /\ saved' = Append(saved, [task_state |-> entry'.task_state,
                                      task_output |-> entry'.task_output])
       ELSE /\ run' = [run EXCEPT !.pc = "main_call"]
            /\ UNCHANGED <<entry, saved>>
    /\ UNCHANGED <<sm, now, published, visited, events, queries, ocg, enrolled>>

\* lines 186-194: the identity check, outside any try statement
MainCheckTaskId ==
    /\ run.pc = "main_check"
    /\ IF task_id_mismatch(entry.task_id, run.request_id)
       THEN run' = [run EXCEPT !.pc = "main_raised",
                               !.exc = Exc("ValueError",
                                           MainMismatchMessage(run.request_id, entry.task_id,
                                                               entry.course_id, entry.task_input)),
                               !.traceback = <<"run_main_task">>]
       ELSE run' = [run EXCEPT !.pc = "main_call"]
    /\ UNCHANGED <<entry, sm, now, published, visited, events, saved, queries, ocg, enrolled>>

\* lines 197-198: task_fcn is called; it returns the task's result or raises
MainTaskFcn ==
    /\ run.pc = "main_call"
    /\ \/ \E task_progress \in HookProgresses :
             run' = [run EXCEPT !.pc = "main_finish", !.called = TRUE,
                                !.task_progress = task_progress]
       \/ \E einfo \in HookFailures :
             run' = [run EXCEPT !.pc = "main_raised", !.called = TRUE,
                                !.exc = einfo.exc, !.traceback = einfo.traceback]
    /\ queries' = TRUE
    /\ UNCHANGED <<entry, sm, now, published, visited, events, saved, ocg, enrolled>>

\* lines 200-218: reset_queries(), the log line and the return
MainFinish ==
    /\ run.pc = "main_finish"
    /\ run' = [run EXCEPT !.pc = "main_returned"]
    /\ queries' = FALSE
    /\ UNCHANGED <<entry, sm, now, published, visited, events, saved, ocg, enrolled>>

\* Celery, the task function having returned or raised, enters the callback
\* of the task's class with what the function returned or raised
CeleryTaskDone ==
    /\ run.pc \in {"main_returned", "main_raised"}
    /\ run' = [run EXCEPT !.pc = IF run.pc = "main_returned" THEN "on_success"
                                                             ELSE "on_failure",
                          !.hook = IF run.pc = "main_returned" THEN "on_success"
                                                               ELSE "on_failure"]
    /\ UNCHANGED <<entry, sm, now, published, visited, events, saved, queries, ocg, enrolled>>

HookNext ==
    \/ CeleryCallback
    \/ on_success
    \/ on_failure
    \/ MainDispatch
    \/ MainLoadEntry
    \/ MainCheckTaskId
    \/ MainTaskFcn
    \/ MainFinish
    \/ CeleryTaskDone

HookSpec == HookInit /\ [][HookNext]_vars

\* ------------------------------------------------------------ properties
Statuses == {UPDATE_STATUS_SUCCEEDED, UPDATE_STATUS_FAILED, UPDATE_STATUS_SKIPPED}
Terminal == {SUCCESS, FAILURE}
Range(seq) == {seq[i] : i \in DOMAIN seq}

\* the value of key k in a JSON object text
JsonGet(out, k) == out[CHOOSE i \in DOMAIN out : out[i][1] = k][2]

\* json.loads of a success output
OutputAsProgress(out) ==
    [k \in {out[i][1] : i \in DOMAIN out} |-> JsonGet(out, k)]

\* the run in progress is one of perform_module_state_update
ModuleRun == run.visit_fcn = "perform_module_state_update"

\* the run in progress loaded its entry and its request id is not the entry's
Mismatched ==
    /\ run.pc \notin {"idle", "load"}
    /\ run.entry_id = 1
    /\ run.entry.task_id # run.request_id

Classified == {j \in DOMAIN visited : visited[j].status \in Statuses}

C3_TotalFixed ==
    [][ /\ (run.pc = "pmsu_count" /\ run'.pc = "pmsu_fetch")
            => (Len(published') = 1 /\ published'[1].total = Len(Matching(run'.query, sm)))
        /\ (published # <<>> /\ Len(published') > Len(published))
            => published'[Len(published')].total = published[1].total ]_vars

C3_Witness ==
    /\ Len(published) >= 3
    /\ run.update_fcn = "delete_problem_module_state"
    /\ Len(Matching(run.query, sm)) < published[Len(published)].total

\* C4: the published snapshots of a run start with all counters 0, each later
\* one has attempted one greater than the one before, and there is exactly one
\* after the first for each target whose outcome was classified.
C4_PublishedStepByOne ==
    ModuleRun =>
        /\ \A i \in DOMAIN published :
              /\ published[i].attempted = i - 1
              /\ i = 1 => /\ published[i].succeeded = 0
                          /\ published[i].failed = 0
                          /\ published[i].skipped = 0
        /\ published # <<>> => Len(published) = 1 + Cardinality(Classified)

C4_Witness ==
    /\ Len(published) = 3
    /\ visited[1].status = UPDATE_STATUS_SKIPPED
    /\ visited[2].status = UPDATE_STATUS_SUCCEEDED

\* C5: when the request id differs from the entry's task_id, run_update_task
\* calls the visit function for no target, does not return normally, and leaves
\* the entry in FAILURE with a message that names both ids.
C5_MismatchAborts ==
    Mismatched =>
        /\ visited = <<>>
        /\ published = <<>>
        /\ run.pc \in {"check", "except", "raised"}
        /\ run.pc = "raised" =>
              /\ entry.task_state = FAILURE
              /\ run.request_id \in Range(JsonGet(entry.task_output, "message"))
              /\ run.entry.task_id \in Range(JsonGet(entry.task_output, "message"))

C5_Witness ==
    /\ Mismatched
    /\ run.pc = "raised"
    /\ \E s \in Students : sm[s].present
    /\ run.state_at_load = "PENDING"

\* C6: when the visit function returned normally, the entry is saved with
\* task_state SUCCESS and a task_output that decodes to exactly the snapshot
\* run_update_task returns, which is the last one published.
C6_SuccessCommitted ==
    run.pc \in {"finish", "returned"} =>
        /\ run.has_progress
        /\ entry.task_state = SUCCESS
        /\ OutputAsProgress(entry.task_output) = run.task_progress
        /\ run.task_progress = published[Len(published)]

C6_Witness ==
    /\ run.pc = "returned"
    /\ run.task_progress.attempted = 2
    /\ run.task_progress.duration_ms > 0

\* C7: an exception raised by the identity check or the visit function never
\* lets run_update_task return normally, and when it reaches the caller the
\* entry holds FAILURE and the failure output of that exception.
C7_FailureCommittedBeforeRaise ==
    /\ (run.entry_id = 1 /\ run.exc # NoExc) => run.pc \in {"except", "raised"}
    /\ (run.entry_id = 1 /\ run.pc = "raised") =>
          /\ run.exc # NoExc
          /\ entry.task_state = FAILURE
          /\ JsonGet(entry.task_output, "exception") = run.exc.kind
          /\ JsonGet(entry.task_output, "message") = run.exc.message

C7_Witness ==
    /\ run.pc = "raised"
    /\ run.entry_id = 1
    /\ run.exc.kind = "UpdateProblemModuleStateError"
    /\ visited # <<>>

\* C8: when the visitor raises on target K of N, K < N, no later target is
\* visited and the entry ends in FAILURE with the kind and the message of the
\* visitor's exception.
C8_VisitorRaiseAborts ==
    \A j \in DOMAIN visited :
        visited[j].status = "raised" =>
            /\ j = Len(visited)
            /\ run.pc \in {"except", "raised"}
            /\ run.pc = "raised" =>
                  /\ entry.task_state = FAILURE
                  /\ JsonGet(entry.task_output, "exception") = visited[j].exc.kind
                  /\ JsonGet(entry.task_output, "message") = visited[j].exc.message

C8_Witness ==
    /\ run.pc = "raised"
    /\ Len(visited) = 1
    /\ visited[1].status = "raised"
    /\ visited[1].exc.kind = "DatabaseError"
    /\ run.fetched # <<>>

\* C9: what the reset and the delete visitor persisted for an earlier target
\* is still in storage after a later target has aborted the run.
C9_MutationsSurviveAbort ==
    run.pc \in {"except", "raised"} =>
        \A j \in DOMAIN visited :
            visited[j].status = UPDATE_STATUS_SUCCEEDED =>
                LET s == visited[j].student
                IN  /\ run.update_fcn = "delete_problem_module_state" => ~sm[s].present
                    /\ run.update_fcn = "reset_attempts_module_state" =>
                          /\ sm[s].present
                          /\ ~sm[s].state.empty
                          /\ json_loads(sm[s].state)["attempts"] = 0

C9_Witness ==
    /\ run.pc = "raised"
    /\ run.update_fcn = "reset_attempts_module_state"
    /\ Len(visited) = 2
    /\ visited[1].status = UPDATE_STATUS_SUCCEEDED
    /\ visited[2].status = "raised"

C11_SingleWriter ==
    [][Len(saved') > Len(saved) => run.request_id = entry.task_id]_vars

\* C11 as amended: a run whose request id differs from the entry's task_id
\* saves the entry once, with FAILURE and the failure output of the identity
\* check, having visited no target and published nothing; it never saves
\* SUCCESS.
C11_MismatchedRunWritesOnlyFailure ==
    [][ (Len(saved') > Len(saved) /\ run.request_id # entry.task_id) =>
            /\ visited = <<>>
            /\ published = <<>>
            /\ Len(saved') = 1
            /\ entry'.task_state = FAILURE
            /\ JsonGet(entry'.task_output, "exception") = "UpdateProblemModuleStateError"
            /\ run.request_id \in Range(JsonGet(entry'.task_output, "message")) ]_vars

C11_Witness ==
    /\ Mismatched
    /\ run.pc = "raised"
    /\ run.state_at_load = SUCCESS
    /\ entry.task_state = FAILURE
    /\ Len(saved) = 1

C15_QueriesReleased ==
    run.pc \in {"returned", "raised"} => ~queries

\* C17: when no InstructorTask row has the given entry_id, the lookup error
\* reaches the caller as raised, no target is visited, nothing is published and
\* no entry is saved.
C17_MissingEntryPropagates ==
    (run.entry_id # 1 /\ run.pc \notin {"idle", "load"}) =>
        /\ run.pc = "raised"
        /\ run.exc = Exc("DoesNotExist", <<"InstructorTask matching query does not exist.">>)
        /\ visited = <<>>
        /\ published = <<>>
        /\ saved = <<>>

C17_Witness ==
    /\ run.entry_id = 2
    /\ run.pc = "raised"
    /\ entry.task_state = SUCCESS
    /\ \E s \in Students : sm[s].present

C14_StudentResolution ==
    (run.entry_id = 1 /\ run.pc \notin {"idle", "load"} /\ run.student_ident.some) =>
        LET ident == run.student_ident.val
            named == IF "@" \in Range(ident)
                     THEN {s \in Students : Email(s) = ident}
                     ELSE {s \in Students : Username(s) = ident}
        IN  /\ (published # <<>> \/ visited # <<>>
                   \/ run.pc \in {"pmsu_count", "pmsu_fetch", "pmsu_loop", "pesu_count",
                                  "pesu_fetch", "pesu_loop", "commit", "finish", "returned"})
                  => run.query.student \in named
            /\ run.exc = Exc("DoesNotExist", <<"User matching query does not exist.">>)
                  => named = {}
            /\ (named = {} /\ run.pc \notin {"check", "pmsu_enter", "pmsu_resolve",
                                              "pesu_enter", "pesu_resolve"}) =>
                  /\ run.pc \in {"except", "raised"}
                  /\ visited = <<>>
                  /\ published = <<>>
                  /\ run.pc = "raised" => entry.task_state = FAILURE

C14_Witness ==
    /\ run.pc = "raised"
    /\ run.student_ident = Some(<<"z", "@", "x">>)
    /\ run.exc = Exc("DoesNotExist", <<"User matching query does not exist.">>)
    /\ JsonGet(entry.task_output, "exception") = "DoesNotExist"
    /\ \E s \in Students : sm[s].present

\* C16: targets are visited one at a time in the order of the enumeration:
\* when update_fcn is called for a target, every earlier target has been
\* classified and the snapshot that counts it has been published, and the
\* target is the next one of the enumeration.
C16_OneAtATime ==
    [][ (ModuleRun /\ Len(visited') > Len(visited)) =>
            /\ Len(visited') = Len(visited) + 1
            /\ \A j \in DOMAIN visited : visited[j].status \in Statuses
            /\ Len(published) = Len(visited) + 1
            /\ published[Len(published)].attempted = Len(visited)
            /\ visited'[Len(visited')].student = Head(run.fetched).student
            /\ run'.fetched = Tail(run.fetched) ]_vars

C16_Witness ==
    /\ Len(visited) = 2
    /\ Len(published) = 3
    /\ visited[1].student = 1
    /\ visited[1].status = UPDATE_STATUS_FAILED
    /\ visited[2].student = 2

\* C19: the reset-attempts visitor, given a target whose state has attempts
\* greater than 0, stores the state with attempts 0 and everything else as it
\* was, emits one problem_reset_attempts event with the old value and the new
\* value 0, and returns succeeded; given a state that is empty, has no attempts
\* or has attempts 0, it returns skipped, stores nothing and emits nothing.
C19_ResetAttemptsVisitor ==
    run.update_fcn = "reset_attempts_module_state" =>
        \A j \in DOMAIN visited :
            LET v == visited[j]
                st == v.before.state
                positive == /\ ~st.empty
                            /\ \E i \in DOMAIN st.pairs :
                                  st.pairs[i][1] = "attempts" /\ st.pairs[i][2] > 0
            IN  IF positive
                THEN v.status # "raised" =>
                        /\ v.status = UPDATE_STATUS_SUCCEEDED
                        /\ v.after.present
                        /\ ~v.after.state.empty
                        /\ json_loads(v.after.state) = [json_loads(st) EXCEPT !["attempts"] = 0]
                        /\ v.events = << [event_type |-> "problem_reset_attempts",
                                          student |-> Username(v.student),
                                          event |-> << <<"old_attempts", JsonGet(st.pairs, "attempts")>>,
                                                       <<"new_attempts", 0>> >>] >>
                ELSE /\ v.status = UPDATE_STATUS_SKIPPED
                     /\ v.after = v.before
                     /\ v.events = <<>>

C19_Witness ==
    /\ run.update_fcn = "reset_attempts_module_state"
    /\ Len(visited) = 2
    /\ visited[1].status = UPDATE_STATUS_SUCCEEDED
    /\ visited[2].status = UPDATE_STATUS_SKIPPED
    /\ ~visited[2].before.state.empty
    /\ json_loads(sm[1].state)["attempts"] = 0
    /\ Len(events) = 1

\* C20: the delete visitor, given an existing target, removes its row, emits
\* one problem_delete_state event with an empty payload and returns succeeded;
\* it never returns failed or skipped, and only a storage error makes it raise.
C20_DeleteVisitor ==
    run.update_fcn = "delete_problem_module_state" =>
        \A j \in DOMAIN visited :
            LET v == visited[j]
            IN  /\ v.before.present
                /\ v.status \in {UPDATE_STATUS_SUCCEEDED, "raised"}
                /\ v.status = UPDATE_STATUS_SUCCEEDED =>
                      /\ v.after = Absent
                      /\ v.events = << [event_type |-> "problem_delete_state",
                                        student |-> Username(v.student), event |-> <<>>] >>
                /\ v.status = "raised" =>
                      /\ v.exc = DatabaseError
                      /\ v.events = <<>>

C20_Witness ==
    /\ run.update_fcn = "delete_problem_module_state"
    /\ Len(visited) = 2
    /\ visited[1].status = UPDATE_STATUS_SUCCEEDED
    /\ visited[2].status = UPDATE_STATUS_SUCCEEDED
    /\ \A s \in Students : ~sm[s].present
    /\ Len(events) = 2

\* C18: the output saved by a successful run of run_update_task, like the
\* snapshot the run returns, has exactly the keys action_name, attempted,
\* succeeded, failed, skipped, total and duration_ms, whichever visit function
\* produced it; the output saved by a failed run has exactly the keys
\* exception, message and traceback.
C18_ResultKeys ==
    saved # <<>> =>
        LET out == saved[Len(saved)].task_output
            keys == {out[i][1] : i \in DOMAIN out}
        IN  /\ saved[Len(saved)].task_state = SUCCESS =>
                  /\ keys = {"action_name", "attempted", "succeeded", "failed", "skipped",
                             "total", "duration_ms"}
                  /\ DOMAIN run.task_progress = keys
            /\ saved[Len(saved)].task_state = FAILURE =>
                  keys = {"exception", "message", "traceback"}

\* C21: a target for which update_fcn returns failed is counted in failed and
\* nothing else, and does not abort the run: the snapshot that counts it is
\* published and the loop goes on (if the run raises with that target the
\* last one visited, the loop had ended and the visit function returned),
\* and a run that returns has visited every enumerated target and left the
\* entry in SUCCESS, its output carrying the number of failed targets.
C21_FailedDoesNotStop ==
    ModuleRun =>
        /\ \A j \in DOMAIN visited :
              visited[j].status = UPDATE_STATUS_FAILED =>
                  /\ Len(published) >= j + 1
                  /\ published[j + 1].failed = published[j].failed + 1
                  /\ published[j + 1].succeeded = published[j].succeeded
                  /\ published[j + 1].skipped = published[j].skipped
                  /\ (j = Len(visited) /\ run.pc \in {"except", "raised"}) =>
                        (run.has_progress /\ run.fetched = <<>>)
        /\ (run.pc = "returned" /\ visited # <<>>) =>
              /\ run.fetched = <<>>
              /\ entry.task_state = SUCCESS
              /\ JsonGet(entry.task_output, "attempted") = Len(visited)
              /\ JsonGet(entry.task_output, "failed") =
                    Cardinality({j \in DOMAIN visited :
                                    visited[j].status = UPDATE_STATUS_FAILED})

C21_Witness ==
    /\ run.pc = "returned"
    /\ entry.task_state = SUCCESS
    /\ Len(visited) = 2
    /\ visited[1].status = UPDATE_STATUS_FAILED
    /\ visited[2].status = UPDATE_STATUS_SUCCEEDED
    /\ JsonGet(entry.task_output, "failed") = 1

\* C22: within one run no target is visited twice, and a visit in which
\* update_fcn raised is the last visit of the run: the exception is not caught
\* and the call is not made again, for that target or for any other.
C22_NoRevisit ==
    \A i \in DOMAIN visited :
        /\ \A j \in DOMAIN visited : i # j => visited[i].student # visited[j].student
        /\ visited[i].status = "raised" =>
              /\ i = Len(visited)
              /\ run.pc \in {"except", "raised"}
              /\ run.num_attempted = i

C22_Witness ==
    /\ run.pc = "raised"
    /\ Len(visited) = 2
    /\ visited[1].status = UPDATE_STATUS_SKIPPED
    /\ visited[2].status = "raised"
    /\ visited[1].student # visited[2].student

\* C23: the exception that leaves run_update_task after update_fcn raised is
\* the exception update_fcn raised, kind and message, not one that wraps it;
\* its traceback ends in the visitor's frame, and the failure output the
\* except clause writes is the failure report of that same exception.
C23_ExceptionVerbatim ==
    \A j \in DOMAIN visited :
        visited[j].status = "raised" =>
            /\ run.exc = visited[j].exc
            /\ run.traceback[Len(run.traceback)] = run.update_fcn
            /\ (run.pc = "raised" /\ run.entry_id = 1) =>
                  /\ entry.task_output =
                        create_output_for_failure(visited[j].exc, run.traceback)
                  /\ saved[Len(saved)].task_output = entry.task_output

C23_Witness ==
    /\ run.pc = "raised"
    /\ run.visit_fcn = "perform_enrolled_student_update"
    /\ Len(visited) = 2
    /\ visited[2].status = "raised"
    /\ run.exc = DatabaseError
    /\ JsonGet(entry.task_output, "exception") = "DatabaseError"

\* the run in progress is between the load of its entry and its one write
Iterating ==
    /\ run.entry_id = 1
    /\ run.pc \in {"check", "pmsu_enter", "pmsu_resolve", "pmsu_count", "pmsu_fetch",
                   "pmsu_loop", "pesu_enter", "pesu_resolve", "pesu_count",
                   "pesu_fetch", "pesu_loop", "commit", "except"}

Terminated == run.pc \in {"returned", "raised"}

EnrolledRun == run.visit_fcn = "perform_enrolled_student_update"

RescoreRun == run.update_fcn = "rescore_problem_module_state"

C29_OnSuccessSubtasks ==
    [][ (run.pc = "on_success" /\ run.entry_id = 1) =>
            /\ run'.pc = "hook_returned"
            /\ IF Len(entry.subtasks) = 0
               THEN /\ entry'.task_state = SUCCESS
                    /\ entry'.task_output = create_output_for_success(run.task_progress)
                    /\ entry'.subtasks = entry.subtasks
                    /\ saved' = <<[task_state |-> SUCCESS,
                                   task_output |-> entry'.task_output]>>
               ELSE /\ entry' = entry
                    /\ saved' = <<>> ]_vars

C29_Witness ==
    /\ run.pc = "hook_returned"
    /\ run.hook = "on_success"
    /\ run.entry_id = 1
    /\ Len(entry.subtasks) > 0
    /\ entry.task_state = PROGRESS
    /\ entry.task_output = NoOutput
    /\ saved = <<>>

\* C30: on_failure, when the entry exists, writes task_state FAILURE and the
\* failure output of the exception and traceback it was given, with one save;
\* when no entry exists for the id it writes nothing, and it returns without
\* raising in both cases.
C30_OnFailureRecords ==
    [][ run.pc = "on_failure" =>
            /\ run'.pc = "hook_returned"
            /\ run'.exc = run.exc
            /\ IF run.entry_id = 1
               THEN /\ entry'.task_state = FAILURE
                    /\ JsonGet(entry'.task_output, "exception") = run.exc.kind
                    /\ JsonGet(entry'.task_output, "message") = run.exc.message
                    /\ JsonGet(entry'.task_output, "traceback") =
                          Truncate(run.traceback, MaxTracebackLen)
                    /\ saved' = <<[task_state |-> FAILURE,
                                   task_output |-> entry'.task_output]>>
               ELSE /\ entry' = entry
                    /\ saved' = <<>> ]_vars

C30_Witness ==
    /\ run.pc = "hook_returned"
    /\ run.hook = "on_failure"
    /\ run.entry_id = 2
    /\ run.exc = DatabaseError
    /\ saved = <<>>
    /\ entry.task_state = SUCCESS

\* the worker is inside run_main_task
InMainTask == run.pc \in {"main_load", "main_check", "main_call", "main_finish"}

\* C31: a run_main_task call whose request id is not the entry's task_id
\* raises ValueError without having called task_fcn; no step of run_main_task,
\* on the returning or on a raising path, writes or saves the entry; and
\* task_state becomes SUCCESS or FAILURE only in a step of on_success or
\* on_failure.
C31_MainTaskNeverWrites ==
    /\ []((run.pc \in {"main_call", "main_finish", "main_returned", "main_raised"}
              /\ run.entry_id = 1 /\ run.request_id # entry.task_id) =>
            /\ run.pc = "main_raised"
            /\ run.exc.kind = "ValueError"
            /\ ~run.called)
    /\ [][ /\ InMainTask => (entry' = entry /\ saved' = saved)
           /\ (entry'.task_state # entry.task_state \/ Len(saved') > Len(saved)) =>
                 /\ run.pc \in {"on_success", "on_failure"}
                 /\ entry'.task_state \in Terminal ]_vars

C31_Witness ==
    /\ run.pc = "hook_returned"
    /\ run.hook = "on_failure"
    /\ run.entry_id = 1
    /\ run.request_id # entry.task_id
    /\ ~run.called
    /\ run.exc.kind = "ValueError"
    /\ entry.task_state = FAILURE
    /\ Len(saved) = 1

\* C32: a run of perform_enrolled_student_update that was given a module
\* state key raises ValueError at once: no query has been built, no student
\* enumerated or visited and no snapshot published, and the entry ends in
\* FAILURE with that ValueError.
C32_ProblemUrlRejected ==
    (/\ EnrolledRun
     /\ run.entry_id = 1
     /\ ~Mismatched
     /\ run.pc \notin {"idle", "load", "check", "pesu_enter"}
     /\ run.module_state_key # NoUrl) =>
        /\ run.pc \in {"except", "raised"}
        /\ run.exc = Exc("ValueError", <<"Value for problem_url not expected">>)
        /\ run.query = NoQuery
        /\ run.fetched = <<>>
        /\ visited = <<>>
        /\ published = <<>>
        /\ events = <<>>
        /\ run.pc = "raised" =>
              /\ entry.task_state = FAILURE
              /\ JsonGet(entry.task_output, "exception") = "ValueError"

C32_Witness ==
    /\ EnrolledRun
    /\ run.pc = "raised"
    /\ run.module_state_key = ProblemUrl
    /\ run.exc.kind = "ValueError"
    /\ visited = <<>>
    /\ published = <<>>
    /\ entry.task_state = FAILURE

\* the smaller of two numbers
Min(a, b) == IF a <= b THEN a ELSE b

\* C33: in a run of perform_enrolled_student_update every published snapshot
\* has attempted at most GradingCap and updated <= attempted <= total, and
\* the snapshot of a run that returned has attempted = min(total, GradingCap).
C33_AttemptedCapped ==
    EnrolledRun =>
        /\ \A i \in DOMAIN published :
              /\ published[i].attempted <= GradingCap
              /\ published[i].updated <= published[i].attempted
              /\ published[i].attempted <= published[i].total
        /\ (run.pc = "returned" /\ published # <<>>) =>
              published[Len(published)].attempted =
                  Min(published[Len(published)].total, GradingCap)

\* the visit function returned and lines 474-476 then raised
CommitRaised ==
    /\ run.has_progress
    /\ run.pc \in {"except", "raised"}

\* C34: when a run of an existing entry has left run_update_task, the stored
\* task_state is SUCCESS exactly if it returned.  In particular, when every
\* target was visited and building or saving the success output then raised,
\* SUCCESS was never saved: the one save of the run is the FAILURE report of
\* that exception, and that exception is what the run raises.
C34_SuccessIffReturned ==
    /\ (run.entry_id = 1 /\ Terminated) =>
          /\ (entry.task_state = SUCCESS) <=> (run.pc = "returned")
          /\ saved # <<>>
          /\ (saved[Len(saved)].task_state = SUCCESS) <=> (run.pc = "returned")
    /\ CommitRaised =>
          /\ run.fetched = <<>>
          /\ \A j \in DOMAIN visited : visited[j].status # "raised"
          /\ \E f \in CommitFailures : run.exc = f.exc /\ run.traceback = f.traceback
          /\ \A i \in DOMAIN saved : saved[i].task_state # SUCCESS
          /\ run.pc = "raised" =>
                /\ entry.task_state = FAILURE
                /\ entry.task_output = create_output_for_failure(run.exc, run.traceback)
                /\ Len(saved) = 1

C34_Witness ==
    /\ CommitRaised
    /\ run.pc = "raised"
    /\ Len(visited) = 2
    /\ visited[2].status = UPDATE_STATUS_SUCCEEDED
    /\ run.exc = DatabaseError
    /\ entry.task_state = FAILURE
    /\ events # <<>>

\* the run in progress calls the reset-attempts visitor
ResetRun == run.update_fcn = "reset_attempts_module_state"

\* C35: when the reset-attempts visitor succeeds on a target, the state it
\* stores has the keys of the state it read, attempts 0 and every other
\* value as it was; called again on what it stored, whatever the database
\* does, it returns skipped, stores nothing, leaves the state as it is and
\* emits no event.  (First conjunct: the call about to be made for the next
\* target; second: the calls a later run made on targets already reset.)
C35_ResetIdempotent ==
    /\ (ResetRun /\ run.pc = "pmsu_loop" /\ run.fetched # <<>>) =>
          \A ext1 \in {x \in Exts : x.db_ok} :
            LET m == Head(run.fetched)
                r1 == reset_attempts_module_state(m, sm[m.student], ext1)
            IN  (~r1.raised /\ r1.status = UPDATE_STATUS_SUCCEEDED) =>
                  LET old == json_loads(m.state)
                      new == json_loads(r1.row.state)
                  IN  /\ DOMAIN new = DOMAIN old
                      /\ new["attempts"] = 0
                      /\ \A k \in DOMAIN old \ {"attempts"} : new[k] = old[k]
                      /\ \A ext2 \in Exts :
                            LET r2 == reset_attempts_module_state(
                                          [m EXCEPT !.state = r1.row.state], r1.row, ext2)
                            IN  /\ ~r2.raised
                                /\ r2.status = UPDATE_STATUS_SKIPPED
                                /\ r2.row = r1.row
                                /\ r2.events = <<>>
                                /\ ~r2.wrote
    /\ ResetRun =>
          \A j \in DOMAIN visited :
              LET v == visited[j]
                  zero == /\ v.before.present
                          /\ ~v.before.state.empty
                          /\ "attempts" \in DOMAIN json_loads(v.before.state)
                          /\ json_loads(v.before.state)["attempts"] = 0
              IN  zero => /\ v.status = UPDATE_STATUS_SKIPPED
                          /\ v.after = v.before
                          /\ sm[v.student] = v.before
                          /\ v.events = <<>>
                          /\ ~v.wrote

C35_Witness ==
    /\ ResetRun
    /\ visited # <<>>
    /\ visited[1].status = UPDATE_STATUS_SKIPPED
    /\ visited[1].before.present
    /\ ~visited[1].before.state.empty
    /\ "attempts" \in DOMAIN json_loads(visited[1].before.state)
    /\ json_loads(visited[1].before.state)["attempts"] = 0
    /\ "seed" \in DOMAIN json_loads(visited[1].before.state)
    /\ events = <<>>
====
